---- MODULE Spec2Model ----
(***************************************************************************)
(* Model of vcpkg's x-analyze-package command                              *)
(* (toolsrc/src/vcpkg/commands.analyzepackage.cpp).                        *)
(*                                                                         *)
(* A std::string is a sequence of one-character strings (Str spells one    *)
(* out from a literal), so that escaping, suffix stripping, case folding,  *)
(* regular-expression matching and the byte-wise order of std::map keys    *)
(* are computed character by character.                                    *)
(* A std::map is a function whose domain is the key set; iterating it      *)
(* visits the keys in ascending std::string order.                         *)
(***************************************************************************)
EXTENDS Integers, Sequences, FiniteSets, TLC

(***************************************************************************)
(* Characters                                                              *)
(***************************************************************************)

\* The characters of a string literal, one per element.
Str(s) == [i \in 1..Len(s) |-> SubSeq(s, i, i)]

\* The printable ASCII characters in code order: 0x20 (space) to 0x5F (_),
\* and 0x61 (a) to 0x7E (~).  0x60 is left out (no input uses it).
PrintableLow ==
    Str(" !\"#$%&'()*+,-./0123456789:;<=>?@ABCDEFGHIJKLMNOPQRSTUVWXYZ[\\]^_")

PrintableHigh ==
    Str("abcdefghijklmnopqrstuvwxyz{|}~")

ControlChars == {"\t", "\n", "\f", "\r"}

Chars ==
    {PrintableLow[i] : i \in 1..Len(PrintableLow)}
        \cup {PrintableHigh[i] : i \in 1..Len(PrintableHigh)}
        \cup ControlChars

\* The byte value of each character (what std::string's operator< compares).
Ord ==
    [c \in Chars |->
        CASE c = "\t" -> 9
          [] c = "\n" -> 10
          [] c = "\f" -> 12
          [] c = "\r" -> 13
          [] \E i \in 1..Len(PrintableLow) : PrintableLow[i] = c ->
                31 + (CHOOSE i \in 1..Len(PrintableLow) : PrintableLow[i] = c)
          [] OTHER ->
                96 + (CHOOSE i \in 1..Len(PrintableHigh) : PrintableHigh[i] = c)]

IsUpper(c) == Ord[c] \in 65..90

IsWordChar(c) ==
    \/ Ord[c] \in 48..57
    \/ Ord[c] \in 65..90
    \/ Ord[c] \in 97..122
    \/ c = "_"

\* ECMAScript \s restricted to the characters of the model.
IsSpace(c) == c \in {" ", "\t", "\n", "\f", "\r"}

ToLowerChar(c) == IF IsUpper(c) THEN PrintableHigh[Ord[c] - 64] ELSE c

ToLower(s) == [i \in 1..Len(s) |-> ToLowerChar(s[i])]

(***************************************************************************)
(* Strings                                                                 *)
(***************************************************************************)

\* std::string operator<: lexicographic on byte values, a proper prefix first.
RECURSIVE StrLess(_, _)
StrLess(a, b) ==
    IF b = <<>> THEN FALSE
    ELSE IF a = <<>> THEN TRUE
    ELSE IF a[1] # b[1] THEN Ord[a[1]] < Ord[b[1]]
    ELSE StrLess(Tail(a), Tail(b))

ends_with(s, suffix) ==
    /\ Len(s) >= Len(suffix)
    /\ SubSeq(s, Len(s) - Len(suffix) + 1, Len(s)) = suffix

case_insensitive_ascii_equals(a, b) == ToLower(a) = ToLower(b)

\* A case-insensitive std::search whose result is compared with s.end(): an
\* empty s holds no pattern, not even the empty one.
case_insensitive_ascii_contains(s, pattern) ==
    /\ s # <<>>
    /\ \E i \in 1..(Len(s) - Len(pattern) + 1) :
          ToLower(SubSeq(s, i, i + Len(pattern) - 1)) = ToLower(pattern)

\* Strings::replace_all for a one-character search string.
RECURSIVE replace_all(_, _, _)
replace_all(s, search, rep) ==
    IF s = <<>> THEN <<>>
    ELSE (IF s[1] = search THEN rep ELSE <<s[1]>>) \o replace_all(Tail(s), search, rep)

RECURSIVE join(_, _)
join(delimiter, v) ==
    IF v = <<>> THEN <<>>
    ELSE IF Len(v) = 1 THEN v[1]
    ELSE v[1] \o delimiter \o join(delimiter, Tail(v))

escape_string(s) ==
    LET r1 == replace_all(s, "\r", Str("\\r"))
        r2 == replace_all(r1, "\n", Str("\\n"))
    IN  replace_all(r2, "\"", Str("\\\""))

(***************************************************************************)
(* The regular expression  \b<call>\(([^\s\)]+)\s  and its iterator        *)
(***************************************************************************)

\* First index at or after i that holds whitespace or ")", or Len(s) + 1.
RECURSIVE CaptureEnd(_, _)
CaptureEnd(s, i) ==
    IF i > Len(s) THEN i
    ELSE IF IsSpace(s[i]) \/ s[i] = ")" THEN i
    ELSE CaptureEnd(s, i + 1)

\* The pattern matches at i: a word boundary, the call name and "(", a
\* non-empty greedy run of [^\s\)], then one whitespace character.  The run
\* cannot be shortened (the character after a shorter run is not whitespace),
\* so a run that stops at ")" or at the end of the text is no match.
RegexMatchAt(s, i, call) ==
    LET open  == call \o <<"(">>
        start == i + Len(open)
        stop  == CaptureEnd(s, start)
    IN  /\ start - 1 <= Len(s)
        /\ SubSeq(s, i, start - 1) = open
        /\ (i = 1 \/ ~IsWordChar(s[i - 1]))
        /\ stop > start
        /\ stop <= Len(s)
        /\ IsSpace(s[stop])

\* std::sregex_iterator from position i: capture group 1 of every
\* non-overlapping match, in textual order.
RECURSIVE RegexCaptures(_, _, _)
RegexCaptures(s, i, call) ==
    IF i > Len(s) THEN <<>>
    ELSE IF RegexMatchAt(s, i, call)
         THEN LET start == i + Len(call) + 1
                  stop  == CaptureEnd(s, start)
              IN  <<SubSeq(s, start, stop - 1)>> \o RegexCaptures(s, stop + 1, call)
         ELSE RegexCaptures(s, i + 1, call)

cmake_library_regex(contents) == RegexCaptures(contents, 1, Str("add_library"))

package_name_regex(usage) == RegexCaptures(usage, 1, Str("find_package"))

(***************************************************************************)
(* Paths                                                                   *)
(***************************************************************************)

\* An fs::path inside the extracted tree is its sequence of components.
generic_string(path) == <<"/">> \o join(<<"/">>, path)

path_filename(path) == path[Len(path)]

parent_path_filename(path) == path[Len(path) - 1]

\* Last index of character c in s, 0 when absent.
RECURSIVE LastIndexOf(_, _)
LastIndexOf(s, c) ==
    IF s = <<>> THEN 0
    ELSE IF s[Len(s)] = c THEN Len(s)
    ELSE LastIndexOf(SubSeq(s, 1, Len(s) - 1), c)

\* fs::path(path_str).stem(): the file name without its last extension; the
\* special names . and .. and a name whose only dot is its first character
\* have no extension.
path_stem(path_str) ==
    LET slash == LastIndexOf(path_str, "/")
        name  == SubSeq(path_str, slash + 1, Len(path_str))
        dot   == LastIndexOf(name, ".")
    IN  IF dot <= 1 \/ name = Str("..") THEN name ELSE SubSeq(name, 1, dot - 1)

\* Strings::trim: s without its leading and trailing whitespace.
RECURSIVE trim(_)
trim(s) ==
    IF s = <<>> THEN s
    ELSE IF IsSpace(s[1]) THEN trim(Tail(s))
    ELSE IF IsSpace(s[Len(s)]) THEN trim(SubSeq(s, 1, Len(s) - 1))
    ELSE s

\* Strings::trim_all_and_remove_whitespace_strings: every string trimmed,
\* the strings that are then empty removed.
trim_all_and_remove_whitespace_strings(strings) ==
    SelectSeq([i \in 1..Len(strings) |-> trim(strings[i])], LAMBDA s : s # <<>>)

\* std::filesystem::temp_directory_path() / "vcpkg"
temp_dir == <<Str("tmp"), Str("vcpkg")>>

(***************************************************************************)
(* std::map and std::sort                                                  *)
(***************************************************************************)

EmptyMap == [k \in {} |-> <<>>]

MapPut(m, k, v) == [x \in (DOMAIN m) \cup {k} |-> IF x = k THEN v ELSE m[x]]

\* Iteration order of a std::map<std::string, T>: ascending keys.
RECURSIVE KeysInOrder(_)
KeysInOrder(keys) ==
    IF keys = {} THEN <<>>
    ELSE LET least == CHOOSE k \in keys : \A o \in keys : ~StrLess(o, k)
         IN  <<least>> \o KeysInOrder(keys \ {least})

\* A map that iterates from the greatest key down (a reversed comparator).
MapOrderDescending(m) ==
    LET up == KeysInOrder(DOMAIN m)
    IN  [i \in 1..Len(up) |-> up[Len(up) + 1 - i]]

MapOrder(m) == KeysInOrder(DOMAIN m)

\* Insert string x into the ascending sequence v.
RECURSIVE SortedInsert(_, _)
SortedInsert(v, x) ==
    IF v = <<>> THEN <<x>>
    ELSE IF StrLess(x, v[1]) THEN <<x>> \o v
    ELSE <<v[1]>> \o SortedInsert(Tail(v), x)

\* std::sort(v.begin(), v.end()) on a vector of strings.
RECURSIVE sort(_)
sort(v) == IF v = <<>> THEN <<>> ELSE SortedInsert(sort(Tail(v)), v[1])

(***************************************************************************)
(* parse_cmake_targets                                                     *)
(***************************************************************************)

ConfigSuffixLen == 12

DashConfigSuffixLen == 13

\* Only .cmake files below a share directory are searched.
IsCMakeFile(full_path) ==
    /\ case_insensitive_ascii_contains(generic_string(full_path), Str("/share/"))
    /\ ends_with(generic_string(full_path), Str(".cmake"))

\* A scan that creates the key before it looks for matches.
PushTargetsKeyFirst(library_targets, find_package_name, file) ==
    LET captures == IF file.readable THEN cmake_library_regex(file.contents) ELSE <<>>
        before   == IF find_package_name \in DOMAIN library_targets
                    THEN library_targets[find_package_name] ELSE <<>>
    IN  MapPut(library_targets, find_package_name, before \o captures)

\* library_targets[find_package_name].push_back(match[1]) for every match:
\* the key is created by the first push_back, so a file without a match
\* (or an unreadable one) leaves the map alone.
PushTargets(library_targets, find_package_name, file) ==
    LET captures == IF file.readable THEN cmake_library_regex(file.contents) ELSE <<>>
        before   == IF find_package_name \in DOMAIN library_targets
                    THEN library_targets[find_package_name] ELSE <<>>
    IN  IF captures = <<>> THEN library_targets
        ELSE MapPut(library_targets, find_package_name, before \o captures)

\* The <Name>Config.cmake / <name>-config.cmake conventions.
BindConfig(config_files, find_package_name, filename) ==
    IF ends_with(filename, Str("Config.cmake"))
    THEN LET root == SubSeq(filename, 1, Len(filename) - ConfigSuffixLen)
         IN  IF case_insensitive_ascii_equals(root, find_package_name)
             THEN MapPut(config_files, find_package_name, root)
             ELSE config_files
    ELSE IF ends_with(filename, Str("-config.cmake"))
    THEN LET root == SubSeq(filename, 1, Len(filename) - DashConfigSuffixLen)
         IN  IF case_insensitive_ascii_equals(root, find_package_name)
             THEN MapPut(config_files, find_package_name, root)
             ELSE config_files
    ELSE config_files

\* files: the listed files, each with its full path; maps: the two maps
\* passed by reference.
RECURSIVE parse_cmake_targets(_, _)
parse_cmake_targets(files, maps) ==
    IF files = <<>> THEN maps
    ELSE LET file == Head(files)
             find_package_name == parent_path_filename(file.path)
         IN  IF IsCMakeFile(file.path)
             THEN parse_cmake_targets(Tail(files),
                    [library_targets |->
                        PushTargets(maps.library_targets, find_package_name, file),
                     config_files |->
                        BindConfig(maps.config_files, find_package_name,
                                   path_filename(file.path))])
             ELSE parse_cmake_targets(Tail(files), maps)

(***************************************************************************)
(* get_cmake_information                                                   *)
(***************************************************************************)

\* fs.get_files_recursive(package_root / "share"): the tree's files below
\* share, with full paths, in listing order.  The directory iterator throws
\* a filesystem_error (a std::runtime_error) when the tree has no share
\* directory; a directory exists when a file is below it.
get_files_recursive(package_root, tree) ==
    LET below == SelectSeq(tree.files, LAMBDA f : f.path[1] = Str("share"))
    IN  IF below = <<>> THEN [kind |-> "throw"]
        ELSE [kind  |-> "ok",
              files |-> [i \in 1..Len(below) |->
                            [below[i] EXCEPT !.path = package_root \o @]]]

\* std::find_if over the listing for a file named exactly "usage", then
\* read_contents and escape_string; empty when absent or unreadable.
CapturedUsage(files) ==
    LET named == SelectSeq(files, LAMBDA f : path_filename(f.path) = Str("usage"))
    IN  IF named # <<>> /\ named[1].readable
        THEN escape_string(named[1].contents)
        ELSE <<>>

\* The first paragraph's Source, else Package, else nothing.
PortName(first) ==
    IF "Source" \in DOMAIN first THEN first["Source"]
    ELSE IF "Package" \in DOMAIN first THEN first["Package"]
    ELSE <<>>

PortDescription(first) ==
    IF "Description" \in DOMAIN first THEN escape_string(first["Description"]) ELSE <<>>

\* emplace(match[1], {}) for every find_package match of the usage text:
\* emplace keeps an existing key.
RECURSIVE EmplaceAll(_, _)
EmplaceAll(library_targets, names) ==
    IF names = <<>> THEN library_targets
    ELSE EmplaceAll(IF Head(names) \in DOMAIN library_targets
                    THEN library_targets
                    ELSE MapPut(library_targets, Head(names), <<>>),
                    Tail(names))

\* If the scan found no target, the names are taken from the usage text.
UsageFallback(library_targets, usage) ==
    IF library_targets = EmptyMap
    THEN EmplaceAll(library_targets, package_name_regex(usage))
    ELSE library_targets

\* The outcome of get_cmake_information on the tree at package_root:
\*   "throw": std::runtime_error (no CONTROL file, or no share directory),
\*   "exit" : Checks::exit_with_message (CONTROL does not parse),
\*   "ok"   : the CMakeInfo returned.
get_cmake_information(package_root, tree) ==
    LET first == tree.control.first
        files == get_files_recursive(package_root, tree).files
        usage == CapturedUsage(files)
        maps  == parse_cmake_targets(files,
                    [config_files |-> EmptyMap, library_targets |-> EmptyMap])
        info  == [port_name        |-> PortName(first),
                  port_description |-> PortDescription(first),
                  usage            |-> usage,
                  config_files     |-> maps.config_files,
                  library_targets  |-> UsageFallback(maps.library_targets, usage)]
    IN  IF ~tree.control.exists THEN [kind |-> "throw"]
        ELSE IF ~tree.control.parses THEN [kind |-> "exit"]
        ELSE IF get_files_recursive(package_root, tree).kind = "throw"
        THEN [kind |-> "throw"]
        ELSE [kind |-> "ok", info |-> info]

(***************************************************************************)
(* generate_package_info_json, generate_cmake_info_json                    *)
(***************************************************************************)

\* The usage message generated from the port, the package and its targets.
GeneratedUsage(port_name, package_name, targets) ==
    Str("The package ") \o port_name
        \o Str(" provides CMake targets:\\r\\n\\r\\n    find_package(") \o package_name
        \o Str(" CONFIG REQUIRED)\\r\\n    target_link_libraries(main PRIVATE ")
        \o join(<<" ">>, targets) \o Str(")\\r\\n")

\* A loop that generates the usage for every key, without the empty() test.
UsageAlwaysGenerated(usage, port_name, package_name, targets) ==
    GeneratedUsage(port_name, package_name, targets)

\* if (cmake_info.usage.empty()) cmake_info.usage = <generated>;
UsageOrGenerated(usage, port_name, package_name, targets) ==
    IF usage = <<>> THEN GeneratedUsage(port_name, package_name, targets) ELSE usage

PackageName(cmake_info, key) ==
    IF key \in DOMAIN cmake_info.config_files THEN cmake_info.config_files[key] ELSE key

\* One formatted line of the report, kept as the arguments of its template
\*   "<name>": { "name": "<name>", "targets": ["<targets>"],
\*               "portName": ..., "portDescription": ..., "description": ... }
PackageStr(package_name, targets, cmake_info) ==
    [name            |-> package_name,
     targets         |-> join(Str("\", \""), targets),
     portName        |-> cmake_info.port_name,
     portDescription |-> cmake_info.port_description,
     description     |-> cmake_info.usage]

\* The loop over cmake_info.library_targets; cmake_info is taken by
\* reference, so the sorted targets and the generated usage stay in it.
RECURSIVE PackageInfoLoop(_, _, _)
PackageInfoLoop(cmake_info, keys, package_strs) ==
    IF keys = <<>> THEN [cmake_info |-> cmake_info, package_strs |-> package_strs]
    ELSE LET key          == Head(keys)
             package_name == PackageName(cmake_info, key)
             targets      == sort(cmake_info.library_targets[key])
             updated      ==
                [cmake_info EXCEPT
                    !.library_targets[key] = targets,
                    !.usage = UsageOrGenerated(cmake_info.usage, cmake_info.port_name,
                                               package_name, targets)]
         IN  PackageInfoLoop(updated, Tail(keys),
                Append(package_strs, PackageStr(package_name, targets, updated)))

generate_package_info_json(cmake_info) ==
    PackageInfoLoop(cmake_info, MapOrder(cmake_info.library_targets), <<>>)

\* Every package's lines, appended in the order of the vector; the report
\* text is "{\n" + join(",\n", package_strs) + "\n}\n".
RECURSIVE generate_cmake_info_json(_, _, _)
generate_cmake_info_json(infos, done, package_strs) ==
    IF infos = <<>> THEN [cmake_info |-> done, package_strs |-> package_strs]
    ELSE LET r == generate_package_info_json(Head(infos))
         IN  generate_cmake_info_json(Tail(infos), Append(done, r.cmake_info),
                                      package_strs \o r.package_strs)

(***************************************************************************)
(* Inputs: package trees and archives                                      *)
(***************************************************************************)

MaxBatch == 3

MaxFiles == 3

File(path, contents) == [path |-> path, readable |-> TRUE, contents |-> contents]

\* share/zlib/zlibConfig.cmake
zlibConfig ==
    File(<<Str("share"), Str("zlib"), Str("zlibConfig.cmake")>>,
         Str("add_library(ZLIB::ZLIB IMPORTED)"))

\* share/foo/FooConfig.cmake: two targets, declared out of order
FooConfig ==
    File(<<Str("share"), Str("foo"), Str("FooConfig.cmake")>>,
         Str("add_library(b STATIC)\nadd_library(a STATIC)"))

\* share/Foo/x.cmake: a directory that differs from foo only in case
FooTargets ==
    File(<<Str("share"), Str("Foo"), Str("x.cmake")>>, Str("add_library(y SHARED)"))

\* share/bar/bar-config.cmake: a config file that declares no target
barConfig ==
    File(<<Str("share"), Str("bar"), Str("bar-config.cmake")>>, Str("set(v 1)"))

\* share/bar/targets.cmake: only the last call is a match
barTargets ==
    File(<<Str("share"), Str("bar"), Str("targets.cmake")>>,
         Str("xadd_library(q x) add_library(c)add_library(d e)"))

\* share/zlib/usage: find_package calls with and without further arguments
usageFind ==
    File(<<Str("share"), Str("zlib"), Str("usage")>>,
         Str("use:\n find_package(Zlib REQUIRED)\n find_package(OpenSSL)")
            \o Str("\n find_package(Zlib QUIET)"))

\* share/doc/usage: a note that names no package
usagePlain ==
    File(<<Str("share"), Str("doc"), Str("usage")>>, Str("link \"z\"\r\n"))

\* share/zlib/locked.cmake: read_contents fails
lockedFile ==
    [path |-> <<Str("share"), Str("zlib"), Str("locked.cmake")>>, readable |-> FALSE,
     contents |-> <<>>]

\* share/bar/notes.txt: not a .cmake file
notesTxt ==
    File(<<Str("share"), Str("bar"), Str("notes.txt")>>, Str("add_library(n x)"))

\* share/foo/copyright: no CMake file and no usage file
copyright ==
    File(<<Str("share"), Str("foo"), Str("copyright")>>, Str("MIT"))

\* lib/zlib/zlibConfig.cmake: not below share
libConfig ==
    File(<<Str("lib"), Str("zlib"), Str("zlibConfig.cmake")>>, Str("add_library(z x)"))

FilePool ==
    {zlibConfig, FooConfig, FooTargets, barConfig, barTargets, usageFind, usagePlain,
     lockedFile}

\* The file listings of at most n distinct files of the pool, in any order.
FileListings(n) ==
    {s \in UNION {[1..k -> FilePool] : k \in 0..n} :
        \A i, j \in DOMAIN s : i # j => s[i] # s[j]}

\* A CONTROL file that parses, with the fields of its first paragraph.
Control(first) == [exists |-> TRUE, parses |-> TRUE, first |-> first]

AbsentControl == [exists |-> FALSE, parses |-> FALSE, first |-> EmptyMap]

MalformedControl == [exists |-> TRUE, parses |-> FALSE, first |-> EmptyMap]

Tree(control, files) == [control |-> control, files |-> files]

TreeZlib ==
    Tree(Control([f \in {"Source"} |-> Str("zlib")]), <<zlibConfig, libConfig, notesTxt>>)

TreeSsl ==
    Tree(Control([f \in {"Package", "Description"} |->
                    IF f = "Package" THEN Str("openssl") ELSE Str("SSL \"lib\"")]),
         <<usageFind>>)

\* A package in which nothing is discovered: share holds the copyright only.
TreeEmpty == Tree(Control([f \in {"Package"} |-> Str("foo")]), <<copyright>>)

TreeAbsent == Tree(AbsentControl, <<zlibConfig>>)

TreeMalformed == Tree(MalformedControl, <<zlibConfig>>)

TreeMulti ==
    Tree(Control([f \in {"Source", "Package"} |->
                    IF f = "Source" THEN Str("multi") ELSE Str("multi-bin")]),
         <<FooConfig, FooTargets, barConfig, barTargets>>)

\* The archives on disk in a batch run; a/zlib.zip and b/zlib.zip share a stem.
Catalogue ==
    [p \in {Str("a/zlib.zip"), Str("b/zlib.zip"), Str("a/empty.zip"), Str("a/absent.zip"),
            Str("a/bad.zip"), Str("a/multi.zip")} |->
        CASE p = Str("a/zlib.zip")   -> TreeZlib
          [] p = Str("b/zlib.zip")   -> TreeSsl
          [] p = Str("a/empty.zip")  -> TreeEmpty
          [] p = Str("a/absent.zip") -> TreeAbsent
          [] p = Str("a/bad.zip")    -> TreeMalformed
          [] p = Str("a/multi.zip")  -> TreeMulti]

\* The archive of a single-package run.
PkgPath == Str("a/pkg.zip")

\* The command lines of at most MaxBatch distinct archive paths, in any order.
Batches ==
    {b \in UNION {[1..n -> DOMAIN Catalogue] : n \in 0..MaxBatch} :
        \A i, j \in DOMAIN b : i # j => b[i] # b[j]}

\* The --infile option: not given, or the lines std::getline reads from the
\* file when it can be opened.
NoInfile == [given |-> FALSE, lines |-> <<>>]

Infile(lines) == [given |-> TRUE, lines |-> lines]

Infiles ==
    {Infile(<<>>),
     Infile(<<Str(" a/zlib.zip"), Str(""), Str("a/multi.zip\r")>>),
     Infile(<<Str("\t"), Str("a/bad.zip "), Str("b/zlib.zip")>>),
     Infile(<<Str("a/empty.zip"), Str("a/absent.zip"), Str("a/empty.zip")>>)}

\* What the temp directory holds before the run: nothing, or a directory
\* zlib left there by an earlier run that did not reach the removal.
StaleTemp == {EmptyMap, [s \in {Str("zlib")} |-> TreeMulti]}

(***************************************************************************)
(* perform_and_exit                                                        *)
(***************************************************************************)

VARIABLES
    archives,      \* the archive files on disk: path string -> package tree
    command_arguments, \* args.command_arguments
    infile,        \* the --infile option and the lines of its file
    package_zips,  \* the archive paths taken from the infile or the arguments
    tempfs,        \* the directories below temp_dir: stem -> extracted tree
    pc,            \* position in perform_and_exit
    outfile_open,  \* outfile.is_open()
    idx,           \* index of the next element of package_zips
    cmake_info,    \* std::vector<CMakeInfo>
    notes,         \* per attempted archive: "done" (printed unless --quiet)
                   \* or "failed" (always printed)
    output,        \* the package_strs joined into the report, <<>> before it
    written_to,    \* "none", "file" or "stdout"
    exit_code,     \* "none" while running, then "success", "failure" (a
                   \* Checks:: exit) or "terminated" (std::terminate)
    exit_message   \* the message of the Checks:: call that ended the run

\* What the run is given and never changes.
inputs == <<archives, command_arguments, infile>>

vars ==
    <<inputs, package_zips, tempfs, pc, outfile_open, idx, cmake_info, notes,
      output, written_to, exit_code, exit_message>>

Init ==
    /\ \/ /\ archives = Catalogue
          /\ \/ /\ command_arguments \in Batches
                /\ infile = NoInfile
             \/ /\ command_arguments \in {b \in Batches : Len(b) <= 1}
                /\ infile \in Infiles
          /\ tempfs \in StaleTemp
       \/ /\ \E files \in FileListings(MaxFiles) :
                archives = [p \in {PkgPath} |->
                               Tree(Control([f \in {"Source"} |-> Str("pkg")]), files)]
          /\ command_arguments = <<PkgPath>>
          /\ infile = NoInfile
          /\ tempfs = EmptyMap
    /\ package_zips = <<>>
    /\ pc = "options"
    /\ outfile_open = FALSE
    /\ idx = 1
    /\ cmake_info = <<>>
    /\ notes = <<>>
    /\ output = <<>>
    /\ written_to = "none"
    /\ exit_code = "none"
    /\ exit_message = ""

\* The elements of sequence s at the indices of keep, in order.
RECURSIVE Restrict(_, _)
Restrict(s, keep) ==
    IF s = <<>> THEN <<>>
    ELSE LET front == Restrict(SubSeq(s, 1, Len(s) - 1), keep)
         IN  IF Len(s) \in keep THEN Append(front, s[Len(s)]) ELSE front

\* What may be left of an extracted tree that is only partly removed: the
\* CONTROL file or not, and any of the files.
SubTrees(tree) ==
    {Tree(control, Restrict(tree.files, keep)) :
        control \in {tree.control, AbsentControl}, keep \in SUBSET DOMAIN tree.files}

\* What may be left below temp_dir by a remove_all that fails.  It removes
\* entry by entry, in the order the directories list them, and returns at
\* the first error: the directories visited before are gone, the one it was
\* in is left with part of its tree, the others are left whole.  Nothing is
\* left when the error is on temp_dir itself.
Remnants(fs) ==
    {EmptyMap} \cup
    UNION {{MapPut([s \in whole |-> fs[s]], stem, t) :
               whole \in SUBSET (DOMAIN fs \ {stem}), t \in SubTrees(fs[stem])} :
           stem \in DOMAIN fs}

\* The options and the list of archives.  weakly_canonical (--outfile) and
\* canonical (--infile, whose file must exist) throw a filesystem_error that
\* nothing catches: std::terminate ends the process.  The open of a stream
\* does not throw with the default exception mask, so a failed open only
\* leaves the stream closed: the report then goes to stdout, and the archives
\* are taken from the arguments.
ParseOptions ==
    /\ pc = "options"
    /\ \E outfile_given, outfile_resolves, outfile_opens, infile_resolves, infile_opens
             \in BOOLEAN :
          /\ outfile_open' = (outfile_given /\ outfile_resolves /\ outfile_opens)
          /\ IF (outfile_given /\ ~outfile_resolves) \/ (infile.given /\ ~infile_resolves)
             THEN /\ pc' = "exited"
                  /\ exit_code' = "terminated"
                  /\ UNCHANGED package_zips
             ELSE /\ pc' = "temp"
                  /\ package_zips' =
                        IF infile.given /\ infile_opens
                        THEN trim_all_and_remove_whitespace_strings(infile.lines)
                        ELSE command_arguments
                  /\ UNCHANGED exit_code
    /\ UNCHANGED <<inputs, tempfs, idx, cmake_info, notes,
                   output, written_to, exit_message>>

\* temp_directory_path(error) / "vcpkg", then Checks::check_exit(!error).
ChooseTempDir ==
    /\ pc = "temp"
    /\ \E error \in BOOLEAN :
          IF error
          THEN /\ pc' = "exited"
               /\ exit_code' = "failure"
               /\ exit_message' = "Failed opening temp directory"
          ELSE /\ pc' = "loop"
               /\ UNCHANGED <<exit_code, exit_message>>
    /\ UNCHANGED <<inputs, package_zips, tempfs, outfile_open, idx, cmake_info, notes,
                   output, written_to>>

\* extract_and_get_info up to the call of get_cmake_information: the archive
\* is extracted to temp_dir / stem unless that directory already exists.
Extracted(fs, path) ==
    IF path_stem(path) \in DOMAIN fs THEN fs
    ELSE MapPut(fs, path_stem(path), archives[path])

extract_and_get_info(fs, path) ==
    get_cmake_information(Append(temp_dir, path_stem(path)),
                          Extracted(fs, path)[path_stem(path)])

InLoop == pc = "loop" /\ idx <= Len(package_zips)

\* cmake_info.push_back(extract_and_get_info(path, temp_dir, paths))
RecordPackage ==
    /\ InLoop
    /\ LET r == extract_and_get_info(tempfs, package_zips[idx])
       IN  /\ r.kind = "ok"
           /\ cmake_info' = Append(cmake_info, r.info)
    /\ tempfs' = Extracted(tempfs, package_zips[idx])
    /\ notes' = Append(notes, "done")
    /\ idx' = idx + 1
    /\ UNCHANGED <<inputs, package_zips, pc, outfile_open, output, written_to,
                   exit_code, exit_message>>

\* catch (std::runtime_error e): the package is skipped with "failed: ...".
SkipPackage ==
    /\ InLoop
    /\ extract_and_get_info(tempfs, package_zips[idx]).kind = "throw"
    /\ tempfs' = Extracted(tempfs, package_zips[idx])
    /\ notes' = Append(notes, "failed")
    /\ idx' = idx + 1
    /\ UNCHANGED <<inputs, package_zips, pc, outfile_open, cmake_info, output,
                   written_to, exit_code, exit_message>>

\* Checks::exit_with_message inside get_cmake_information ends the process.
ExitOnControlError ==
    /\ InLoop
    /\ extract_and_get_info(tempfs, package_zips[idx]).kind = "exit"
    /\ tempfs' = Extracted(tempfs, package_zips[idx])
    /\ pc' = "exited"
    /\ exit_code' = "failure"
    /\ exit_message' = "Error parsing CONTROL file"
    /\ UNCHANGED <<inputs, package_zips, outfile_open, idx, cmake_info, notes, output,
                   written_to>>

\* generate_cmake_info_json(cmake_info), written to the outfile or printed.
WriteReport ==
    /\ pc = "loop"
    /\ idx > Len(package_zips)
    /\ LET r == generate_cmake_info_json(cmake_info, <<>>, <<>>)
       IN  /\ cmake_info' = r.cmake_info
           /\ output' = r.package_strs
    /\ written_to' = IF outfile_open THEN "file" ELSE "stdout"
    /\ outfile_open' = FALSE
    /\ pc' = "cleanup"
    /\ UNCHANGED <<inputs, package_zips, tempfs, idx, notes, exit_code, exit_message>>

\* remove_all(temp_dir, error), Checks::check_exit(!error), exit_success.
\* A remove_all that fails has removed the entries it visited before the
\* error.
RemoveTempDir ==
    /\ pc = "cleanup"
    /\ \E error \in BOOLEAN :
          IF error
          THEN /\ exit_code' = "failure"
               /\ exit_message' = "Failed removing temp directory"
               /\ tempfs' \in Remnants(tempfs)
          ELSE /\ exit_code' = "success"
               /\ tempfs' = EmptyMap
               /\ UNCHANGED exit_message
    /\ pc' = "exited"
    /\ UNCHANGED <<inputs, package_zips, outfile_open, idx, cmake_info, notes, output,
                   written_to>>

Next ==
    \/ ParseOptions
    \/ ChooseTempDir
    \/ RecordPackage
    \/ SkipPackage
    \/ ExitOnControlError
    \/ WriteReport
    \/ RemoveTempDir

Spec == Init /\ [][Next]_vars

(***************************************************************************)
(* Vocabulary of the properties                                            *)
(***************************************************************************)

\* The archive whose processing pushed cmake_info[j]: the j-th "done".
SourceOf(j) ==
    CHOOSE i \in 1..Len(notes) :
        /\ notes[i] = "done"
        /\ Cardinality({h \in 1..i : notes[h] = "done"}) = j

\* The extracted tree that was analysed for package_zips[i] (while the temp
\* directory is still there).
AnalysedTree(i) == tempfs[path_stem(package_zips[i])]

\* The files get_cmake_information listed for package_zips[i].
AnalysedFiles(i) ==
    get_files_recursive(Append(temp_dir, path_stem(package_zips[i])),
                        AnalysedTree(i)).files

Names(j) == DOMAIN cmake_info[j].library_targets

\* The display name of key k of package j.
DisplayName(j, k) ==
    IF k \in DOMAIN cmake_info[j].config_files
    THEN cmake_info[j].config_files[k]
    ELSE k

\* Number of report lines of the packages before package j.
RECURSIVE LinesBefore(_)
LinesBefore(j) == IF j = 1 THEN 0 ELSE LinesBefore(j - 1) + Cardinality(Names(j - 1))

\* The positions of the report that hold the lines of package j.
LinesOf(j) == (LinesBefore(j) + 1)..(LinesBefore(j) + Cardinality(Names(j)))

\* Position of key k among the keys of package j in ascending string order.
Rank(j, k) == 1 + Cardinality({o \in Names(j) : StrLess(o, k)})

IsSorted(v) == \A a, b \in DOMAIN v : a < b => ~StrLess(v[b], v[a])

\* The report has been generated and the temp directory is still in place.
ReportWritten == pc = "cleanup"

\* Names that are the first argument of a find_package( call in text: the
\* argument runs up to whitespace or the closing parenthesis.
FirstArguments(text) ==
    LET call == Str("find_package(")
    IN  {SubSeq(text, i + Len(call), CaptureEnd(text, i + Len(call)) - 1) :
            i \in {h \in 1..Len(text) :
                     /\ h + Len(call) <= Len(text)
                     /\ SubSeq(text, h, h + Len(call) - 1) = call
                     /\ (h = 1 \/ ~IsWordChar(text[h - 1]))
                     /\ CaptureEnd(text, h + Len(call)) > h + Len(call)
                     /\ CaptureEnd(text, h + Len(call)) <= Len(text)}}

\* The usage note of a package without a usage file: the port, the display
\* name and the targets separated by spaces, with the line breaks spelled
\* out as the two characters backslash-r and backslash-n.
ExpectedGenerated(port, display, targets) ==
    LET crlf == Str("\\r\\n")
    IN  Str("The package ") \o port \o Str(" provides CMake targets:") \o crlf \o crlf
        \o Str("    find_package(") \o display \o Str(" CONFIG REQUIRED)") \o crlf
        \o Str("    target_link_libraries(main PRIVATE ") \o join(<<" ">>, targets)
        \o Str(")") \o crlf

\* The run ended before it had a temp directory or while removing it.
SetupFailure ==
    \/ exit_code = "terminated"
    \/ exit_message \in {"Failed opening temp directory",
                         "Failed removing temp directory",
                         "Failed opening output file"}

(***************************************************************************)
(* Properties                                                              *)
(***************************************************************************)

\* C1: every successfully processed package contributes at least one line
\* to the report; a package with no discovered name contributes exactly one
\* line, keyed by "_" followed by the port name, with an empty target array.
C1_FallbackLine ==
    ReportWritten =>
        \A j \in 1..Len(cmake_info) :
            /\ \E p \in DOMAIN output : output[p].portName = cmake_info[j].port_name
            /\ Names(j) = {} =>
                  \E p \in DOMAIN output :
                      /\ output[p].name = <<"_">> \o cmake_info[j].port_name
                      /\ output[p].portName = cmake_info[j].port_name
                      /\ output[p].targets = <<>>

\* C2: a package whose CONTROL file is absent and a package whose CONTROL
\* file does not parse are both skipped with a failure note; the run goes on
\* to the later archives, writes the report and exits with success.  Only a
\* setup failure aborts the run.
C2_ControlFailuresSkipped ==
    /\ pc = "exited" =>
          \/ SetupFailure
          \/ /\ exit_code = "success"
             /\ written_to # "none"
             /\ Len(notes) = Len(package_zips)
    /\ pc \in {"loop", "cleanup"} =>
          \A i \in 1..Len(notes) :
              (~AnalysedTree(i).control.exists \/ ~AnalysedTree(i).control.parses)
                  => notes[i] = "failed"

\* C3: once the temp directory has been chosen, every exit (normal
\* completion, completion after skipped packages, an abort while a package
\* is processed) leaves the temp directory removed.
C3_TempDirRemoved ==
    (pc = "exited" /\ ~SetupFailure) => tempfs = EmptyMap

\* C4: the record of an archive depends on that archive's contents only: it
\* is the record obtained by processing the archive alone into an empty temp
\* directory, whatever was processed before and whatever the temp directory
\* held before the run.
C4_RecordOfOwnArchive ==
    pc = "loop" =>
        /\ \A j \in 1..Len(cmake_info) :
              LET path  == package_zips[SourceOf(j)]
                  alone == extract_and_get_info(EmptyMap, path)
              IN  alone.kind = "ok" /\ cmake_info[j] = alone.info
        /\ \A i \in 1..Len(notes) :
              notes[i] = "failed" =>
                  extract_and_get_info(EmptyMap, package_zips[i]).kind = "throw"

\* C5: the report lists the packages in the order of the input archives
\* (skipped packages contribute nothing), and within a package its lines in
\* ascending order of the directory-derived key.
C5_ReportOrder ==
    ReportWritten =>
        /\ Len(cmake_info) = Cardinality({i \in 1..Len(notes) : notes[i] = "done"})
        /\ Len(output) = LinesBefore(Len(cmake_info) + 1)
        /\ \A j \in 1..Len(cmake_info) :
              /\ cmake_info[j].port_name = PortName(AnalysedTree(SourceOf(j)).control.first)
              /\ \A k \in Names(j) :
                    LET line == output[LinesBefore(j) + Rank(j, k)]
                    IN  /\ line.name = DisplayName(j, k)
                        /\ line.portName = cmake_info[j].port_name

\* A report of two packages of different ports, processed after a skipped
\* archive, where one package has two keys whose display names are in the
\* opposite order.
C5_Witness ==
    /\ ReportWritten
    /\ Len(cmake_info) >= 2
    /\ cmake_info[1].port_name # cmake_info[2].port_name
    /\ Names(1) # {}
    /\ Names(2) # {}
    /\ \E i \in 1..Len(notes) : notes[i] = "failed" /\ i < SourceOf(2)
    /\ \E j \in 1..Len(cmake_info) : \E k1, k2 \in Names(j) :
          /\ StrLess(k1, k2)
          /\ StrLess(DisplayName(j, k2), DisplayName(j, k1))

\* C6: the display names of the lines of one package are pairwise distinct.
C6_DisplayNamesDistinct ==
    ReportWritten =>
        \A j \in 1..Len(cmake_info) : \A p, q \in LinesOf(j) :
            p # q => output[p].name # output[q].name

\* C7: the lines of a package are those of the union of the keys of the
\* name-to-targets map and of the config-file map; a key with a config-file
\* binding and no target has a line with its display name and no target.
C7_UnionOfKeys ==
    ReportWritten =>
        \A j \in 1..Len(cmake_info) :
            /\ {output[p].name : p \in LinesOf(j)} =
                  {DisplayName(j, k) : k \in Names(j) \cup DOMAIN cmake_info[j].config_files}
            /\ \A k \in (DOMAIN cmake_info[j].config_files) \ Names(j) :
                  \E p \in DOMAIN output :
                      /\ output[p].name = cmake_info[j].config_files[k]
                      /\ output[p].portName = cmake_info[j].port_name
                      /\ output[p].targets = <<>>

\* C8: when the target scan found nothing, the discovered names are exactly
\* the first arguments of the find_package( calls of the usage text, whether
\* further arguments follow or the call closes right after the name; when the
\* scan found targets, no name comes from the usage text.
C8_UsageFallbackNames ==
    pc = "loop" =>
        \A j \in 1..Len(cmake_info) :
            LET info == cmake_info[j]
            IN  IF \A k \in Names(j) : info.library_targets[k] = <<>>
                THEN Names(j) = FirstArguments(info.usage)
                ELSE \A k \in Names(j) : info.library_targets[k] # <<>>

\* C9: all lines of a package carry one usage string: the escaped text of
\* the usage file when that is not empty, else the string generated once
\* from the first key in key order (port name, its display name, its sorted
\* targets); a package without keys gets no generated string.
C9_SharedUsage ==
    ReportWritten =>
        \A j \in 1..Len(cmake_info) :
            LET info     == cmake_info[j]
                captured == CapturedUsage(AnalysedFiles(SourceOf(j)))
                first    == CHOOSE k \in Names(j) : \A o \in Names(j) : ~StrLess(o, k)
            IN  IF Names(j) = {} THEN info.usage = captured
                ELSE /\ IsSorted(info.library_targets[first])
                     /\ \A p \in LinesOf(j) :
                           output[p].description =
                              IF captured # <<>> THEN captured
                              ELSE ExpectedGenerated(info.port_name, DisplayName(j, first),
                                                     info.library_targets[first])

\* A report with a package of several keys and no usage file, whose first
\* key has several targets, and a package with a usage file.
C9_Witness ==
    /\ ReportWritten
    /\ \E j \in 1..Len(cmake_info) :
          /\ Cardinality(Names(j)) >= 2
          /\ CapturedUsage(AnalysedFiles(SourceOf(j))) = <<>>
    /\ \E j \in 1..Len(cmake_info) :
          /\ Names(j) # {}
          /\ CapturedUsage(AnalysedFiles(SourceOf(j))) # <<>>

\* C10: the keys of one package either all have targets (they come from the
\* file scan) or all have none (they come from the usage text, which is then
\* not empty); so a usage string is generated only for a key with a target,
\* and a line with no target carries the text of the usage file.
C10_TargetsNeverMixed ==
    /\ \A j \in 1..Len(cmake_info) :
          LET info == cmake_info[j]
          IN  \/ \A k \in Names(j) : info.library_targets[k] # <<>>
              \/ /\ \A k \in Names(j) : info.library_targets[k] = <<>>
                 /\ info.usage # <<>>
    /\ ReportWritten =>
          \A j \in 1..Len(cmake_info) :
              LET captured == CapturedUsage(AnalysedFiles(SourceOf(j)))
              IN  /\ (Names(j) # {} /\ captured = <<>>) =>
                        \A k \in Names(j) : cmake_info[j].library_targets[k] # <<>>
                  /\ \A p \in LinesOf(j) :
                        output[p].targets = <<>> =>
                            captured # <<>> /\ output[p].description = captured

\* A report with a package whose names all come from the usage text and a
\* package whose names all come from the file scan.
C10_Witness ==
    /\ ReportWritten
    /\ \E j \in 1..Len(cmake_info) :
          Names(j) # {} /\ \A k \in Names(j) : cmake_info[j].library_targets[k] = <<>>
    /\ \E j \in 1..Len(cmake_info) :
          Cardinality(Names(j)) >= 2
              /\ \A k \in Names(j) : cmake_info[j].library_targets[k] # <<>>

====
